---- MODULE Spec2Model ----
(***************************************************************************)
(* Model of src/src/TestCasePage.tsx: the TestCaseAdvancedPage component   *)
(* (its React state, its handlers and its persistence effect), the graph   *)
(* builder generateMermaid and the exporters.                              *)
(*                                                                         *)
(* Conventions.                                                            *)
(*  - An optional JavaScript value (undefined / null or a value) is a      *)
(*    sequence of length 0 or 1: None or Some(x).                          *)
(*  - A Branch object is shared by reference between the draft and the     *)
(*    committed cases (editCase copies the branches ARRAY, not the Branch  *)
(*    objects), so every Branch carries its object identity in the field   *)
(*    oid; assigning to a field of a Branch changes every occurrence of    *)
(*    that oid.  Step objects and arrays are never shared between the      *)
(*    draft and the Collection once a handler has returned (every handler  *)
(*    that moves steps across copies them with {...s} / [...a]), so they   *)
(*    are plain values.                                                    *)
(*  - TLA+ strings are ASCII: the source's literals are transliterated     *)
(*    (see Success, Failure, Exception, StepLabel, UnknownStep, NoneText). *)
(***************************************************************************)
EXTENDS Integers, Sequences, FiniteSets, Bags, TLC

\* ------------------------------------------------------------------ bounds
MaxCases == 2
MaxSteps == 2
MaxBranches == 1
MaxOps == 5

\* ------------------------------------------------------------ basic values
None == <<>>
Some(x) == <<x>>
IsSome(o) == o # <<>>
Get(o) == o[1]

\* expectedStatus: "成功" | "失败" | "异常"
Success == "Success"
Failure == "Failure"
Exception == "Exception"
Statuses == {Success, Failure, Exception}

\* what the user can type into the text inputs
ActionInputs == {"", "a", "b"}
ValueInputs == {"", "v"}
ConditionInputs == {"", "x"}
TitleInputs == {"", "t"}
PreconditionInputs == {"", "p"}

\* `步骤 ${idx + 1}` for the 0-based index idx
StepLabelTable == <<"Step 1", "Step 2", "Step 3", "Step 4", "Step 5">>
StepLabel(idx) == StepLabelTable[idx + 1]

\* `TC-${n}`; an array index n as a property key is the string `${n}`
TcId(n) == [prefix |-> "TC-", num |-> n]
IndexKey(n) == [prefix |-> "", num |-> n]

\* { action: "", expectedStatus: "成功", expectedValue: "" }
DefaultStep ==
  [action |-> "", expectedStatus |-> Success, expectedValue |-> "",
   dependsOn |-> None, branches |-> None]

\* the elements of an optional array, none when it is undefined (a?.map(...))
OptSeq(o) == IF IsSome(o) THEN Get(o) ELSE <<>>

\* the branches of a step (s.branches?.)
BranchesOf(s) == OptSeq(s.branches)

RemoveAt(seq, i) == [j \in 1..(Len(seq) - 1) |-> IF j < i THEN seq[j] ELSE seq[j + 1]]

\* ---------------------------------------------------------- localStorage
\* The slot STORAGE_KEY: absent (getItem gives null), or a string: the empty
\* string, a text that is not JSON, or the JSON text of a value.
SlotMissing == [kind |-> "missing", val |-> <<>>]
SlotEmpty == [kind |-> "empty", val |-> <<>>]
SlotMalformed == [kind |-> "malformed", val |-> <<>>]

\* JSON.stringify of a Branch / Step / TestCase: the object's identity is
\* lost, properties whose value is undefined are omitted (None stays None).
JsonBranch(b) == [condition |-> b.condition, nextStep |-> b.nextStep]
JsonStep(s) ==
  [action |-> s.action, expectedStatus |-> s.expectedStatus,
   expectedValue |-> s.expectedValue, dependsOn |-> s.dependsOn,
   branches |-> IF IsSome(s.branches)
                THEN Some([j \in 1..Len(Get(s.branches)) |-> JsonBranch(Get(s.branches)[j])])
                ELSE None]
JsonCase(c) ==
  [id |-> c.id, title |-> c.title, precondition |-> c.precondition,
   steps |-> [i \in 1..Len(c.steps) |-> JsonStep(c.steps[i])]]
JSONstringify(cs) ==
  [kind |-> "json", val |-> [k \in 1..Len(cs) |-> JsonCase(cs[k])]]

\* JSON.parse: every object of the text becomes a fresh object: the branches of
\* the text are numbered in the order they are read, so no two share an oid.
RECURSIVE BranchCount(_, _)
BranchCount(ss, n) ==
  IF n = 0 THEN 0 ELSE BranchCount(ss, n - 1) + Len(BranchesOf(ss[n]))
RECURSIVE BranchCountCases(_, _)
BranchCountCases(val, n) ==
  IF n = 0 THEN 0
  ELSE BranchCountCases(val, n - 1) + BranchCount(val[n].steps, Len(val[n].steps))
ParseStep(base, ss, i) ==
  [action |-> ss[i].action, expectedStatus |-> ss[i].expectedStatus,
   expectedValue |-> ss[i].expectedValue, dependsOn |-> ss[i].dependsOn,
   branches |-> IF IsSome(ss[i].branches)
                THEN Some([j \in 1..Len(Get(ss[i].branches)) |->
                             [oid |-> base + BranchCount(ss, i - 1) + j,
                              condition |-> Get(ss[i].branches)[j].condition,
                              nextStep |-> Get(ss[i].branches)[j].nextStep]])
                ELSE None]
JSONparse(val) ==
  [k \in 1..Len(val) |->
     [id |-> val[k].id, title |-> val[k].title, precondition |-> val[k].precondition,
      steps |-> [i \in 1..Len(val[k].steps) |->
                   ParseStep(BranchCountCases(val, k - 1), val[k].steps, i)]]]

\* The Collection of the spec's scenario (section 8), as a stored text.
LoginCase ==
  [id |-> TcId(1), title |-> "Login", precondition |-> "user exists",
   steps |-> <<[action |-> "enter creds", expectedStatus |-> Success,
                expectedValue |-> "", dependsOn |-> None, branches |-> None],
               [action |-> "submit", expectedStatus |-> Success,
                expectedValue |-> "redirect", dependsOn |-> Some(0),
                branches |-> Some(<<[condition |-> "invalid", nextStep |-> 0]>>)]>>]
SlotLogin == [kind |-> "json", val |-> <<LoginCase>>]

\* what the slot may hold when the page is opened
InitialSlots == {SlotMissing, SlotEmpty, SlotMalformed, SlotLogin}

\* ------------------------------------------------------------------ state
VARIABLES
  pc,            \* "boot" before the component is mounted, "ready", "crashed"
  slot,          \* localStorage[STORAGE_KEY]
  cases,         \* useState<TestCase[]>: the Collection
  title,         \* draft
  precondition,  \* draft
  steps,         \* draft
  editingId,     \* None (null) or Some(id)
  out,           \* the artifact the last handler produced: None or Some(file)
  assigned,      \* history: the ids addCase has assigned so far
  ops            \* history: number of user actions handled so far

vars == <<pc, slot, cases, title, precondition, steps, editingId, out, assigned, ops>>

Ids(cs) == {cs[k].id : k \in 1..Len(cs)}

\* the identities of the Branch objects reachable from a step sequence
OidsOfSteps(ss) ==
  UNION {{BranchesOf(ss[i])[j].oid : j \in 1..Len(BranchesOf(ss[i]))} : i \in 1..Len(ss)}
LiveOids ==
  OidsOfSteps(steps) \cup UNION {OidsOfSteps(cases[k].steps) : k \in 1..Len(cases)}
\* the identity of a newly created object: any identity no live object has
FreshOid ==
  CHOOSE n \in 1..(Cardinality(LiveOids) + 1) :
    n \notin LiveOids /\ \A m \in 1..(n - 1) : m \in LiveOids

\* b.<field> = v for the Branch object oid, seen through every reference to it
AssignInSteps(ss, oid, field, v) ==
  [i \in 1..Len(ss) |->
     IF IsSome(ss[i].branches)
     THEN [ss[i] EXCEPT !.branches =
             Some([j \in 1..Len(Get(ss[i].branches)) |->
                     IF Get(ss[i].branches)[j].oid = oid
                     THEN [Get(ss[i].branches)[j] EXCEPT ![field] = v]
                     ELSE Get(ss[i].branches)[j]])]
     ELSE ss[i]]
AssignInCases(cs, oid, field, v) ==
  [k \in 1..Len(cs) |-> [cs[k] EXCEPT !.steps = AssignInSteps(cs[k].steps, oid, field, v)]]

\* ------------------------------------------------------------------- Init
\* Before the component is constructed: the useState initial values that do
\* not depend on the slot are already in place.
Init ==
  /\ pc = "boot"
  /\ slot \in InitialSlots
  /\ cases = <<>>
  /\ title = ""
  /\ precondition = ""
  /\ steps = <<DefaultStep>>
  /\ editingId = None
  /\ out = None
  /\ assigned = {}
  /\ ops = 0

\* useEffect(() => localStorage.setItem(STORAGE_KEY, JSON.stringify(cases)), [cases]):
\* runs after a render in which the identity of `cases` changed
PersistEffect(cs) == JSONstringify(cs)

\* one more user action handled; the model stops after MaxOps of them
Handled == ops < MaxOps /\ ops' = ops + 1

\* resetForm
ResetForm ==
  /\ title' = ""
  /\ precondition' = ""
  /\ steps' = <<DefaultStep>>

\* the cases initializer, the first render and the effect after it
Mount ==
  /\ pc = "boot"
  /\ IF slot.kind \in {"missing", "empty"}
     THEN /\ cases' = <<>>
          /\ pc' = "ready"
          /\ slot' = PersistEffect(cases')
     ELSE IF slot.kind = "malformed"
     THEN \* JSON.parse throws SyntaxError out of the initializer
          /\ pc' = "crashed"
          /\ UNCHANGED <<cases, slot>>
     ELSE /\ cases' = JSONparse(slot.val)
          /\ pc' = "ready"
          /\ slot' = PersistEffect(cases')
  /\ assigned' = Ids(cases')       \* the ids earlier sessions assigned
  /\ UNCHANGED <<title, precondition, steps, editingId, out, ops>>

\* a variant that puts the new case in front
addCaseInFront ==
  /\ pc = "ready"
  /\ Handled
  /\ editingId = None
  /\ Len(cases) < MaxCases
  /\ LET id == TcId(Len(cases) + 1) IN
       /\ cases' = <<[id |-> id, title |-> title,
                      precondition |-> precondition, steps |-> steps]>> \o cases
       /\ assigned' = assigned \cup {id}
  /\ ResetForm
  /\ slot' = PersistEffect(cases')
  /\ out' = None
  /\ UNCHANGED <<pc, editingId>>

addCase ==
  /\ pc = "ready"
  /\ Handled
  /\ editingId = None              \* the button is rendered only then
  /\ Len(cases) < MaxCases
  /\ LET id == TcId(Len(cases) + 1) IN
       /\ cases' = Append(cases, [id |-> id, title |-> title,
                                  precondition |-> precondition, steps |-> steps])
       /\ assigned' = assigned \cup {id}
  /\ ResetForm
  /\ slot' = PersistEffect(cases')
  /\ out' = None
  /\ UNCHANGED <<pc, editingId>>

editCase(k) ==
  /\ pc = "ready"
  /\ Handled
  /\ k \in 1..Len(cases)
  /\ editingId' = Some(cases[k].id)
  /\ title' = cases[k].title
  /\ precondition' = cases[k].precondition
  /\ steps' = [i \in 1..Len(cases[k].steps) |->
                 [cases[k].steps[i] EXCEPT !.branches = Some(BranchesOf(cases[k].steps[i]))]]
  /\ out' = None
  /\ UNCHANGED <<pc, slot, cases, assigned>>

saveCase ==
  /\ pc = "ready"
  /\ Handled
  /\ IsSome(editingId)
  /\ cases' = [k \in 1..Len(cases) |->
                 IF cases[k].id = Get(editingId)
                 THEN [cases[k] EXCEPT !.title = title, !.precondition = precondition,
                                       !.steps = steps]
                 ELSE cases[k]]
  /\ editingId' = None
  /\ ResetForm
  /\ slot' = PersistEffect(cases')
  /\ out' = None
  /\ UNCHANGED <<pc, assigned>>

\* a variant that removes only the first case with the id
RemoveFirstById(cs, id) ==
  IF \E k \in 1..Len(cs) : cs[k].id = id
  THEN RemoveAt(cs, CHOOSE k \in 1..Len(cs) :
                      cs[k].id = id /\ \A m \in 1..(k - 1) : cs[m].id # id)
  ELSE cs

\* cases.filter((c) => c.id !== id)
RemoveById(cs, id) == SelectSeq(cs, LAMBDA c : c.id # id)

deleteCase(id, ok) ==
  /\ pc = "ready"
  /\ Handled
  /\ IF ok
     THEN /\ cases' = RemoveById(cases, id)
          /\ slot' = PersistEffect(cases')
     ELSE UNCHANGED <<cases, slot>>
  /\ out' = None
  /\ UNCHANGED <<pc, title, precondition, steps, editingId, assigned>>

clearCases(ok) ==
  /\ pc = "ready"
  /\ Handled
  /\ IF ok
     THEN /\ cases' = <<>>
          \* localStorage.removeItem(STORAGE_KEY), then the effect of the re-render
          /\ slot' = PersistEffect(cases')
     ELSE UNCHANGED <<cases, slot>>
  /\ out' = None
  /\ UNCHANGED <<pc, title, precondition, steps, editingId, assigned>>

\* ------------------------------------------------------ edits of the draft
\* Every edit of the draft leaves `cases` the same array: no effect runs.
DraftFrame == UNCHANGED <<pc, slot, title, precondition, editingId, assigned>>

setTitle(v) ==
  /\ pc = "ready"
  /\ Handled
  /\ v # title
  /\ title' = v
  /\ out' = None
  /\ UNCHANGED <<pc, slot, cases, precondition, steps, editingId, assigned>>

setPrecondition(v) ==
  /\ pc = "ready"
  /\ Handled
  /\ v # precondition
  /\ precondition' = v
  /\ out' = None
  /\ UNCHANGED <<pc, slot, cases, title, steps, editingId, assigned>>

\* ns[i][field] = e.target.value on the draft's own Step object
setStepField(i, field, v) ==
  /\ pc = "ready"
  /\ Handled
  /\ i \in 1..Len(steps)
  /\ v # steps[i][field]
  /\ steps' = [steps EXCEPT ![i][field] = v]
  /\ out' = None
  /\ UNCHANGED cases
  /\ DraftFrame

addStep ==
  /\ pc = "ready"
  /\ Handled
  /\ Len(steps) < MaxSteps
  /\ steps' = Append(steps, DefaultStep)
  /\ out' = None
  /\ UNCHANGED <<cases>>
  /\ DraftFrame

\* a variant that moves the references past the deleted step down by one
ShiftRef(n, idx) == IF n > idx THEN n - 1 ELSE n

ShiftStep(s, idx) ==
  [s EXCEPT !.dependsOn = IF IsSome(@) THEN Some(ShiftRef(Get(@), idx)) ELSE None,
            !.branches = IF IsSome(@)
                         THEN Some([j \in 1..Len(Get(@)) |->
                                      [Get(@)[j] EXCEPT !.nextStep = ShiftRef(@, idx)]])
                         ELSE None]

deleteStepReindexing(idx) ==
  /\ pc = "ready"
  /\ Handled
  /\ idx \in 0..(Len(steps) - 1)
  /\ steps' = [j \in 1..(Len(steps) - 1) |-> ShiftStep(RemoveAt(steps, idx + 1)[j], idx)]
  /\ out' = None
  /\ UNCHANGED <<cases>>
  /\ DraftFrame

deleteStep(idx) ==
  /\ pc = "ready"
  /\ Handled
  /\ idx \in 0..(Len(steps) - 1)
  /\ steps' = RemoveAt(steps, idx + 1)
  /\ out' = None
  /\ UNCHANGED <<cases>>
  /\ DraftFrame

addBranch(stepIdx) ==
  /\ pc = "ready"
  /\ Handled
  /\ stepIdx \in 0..(Len(steps) - 1)
  /\ Len(BranchesOf(steps[stepIdx + 1])) < MaxBranches
  /\ steps' = [steps EXCEPT ![stepIdx + 1].branches =
                 Some(Append(BranchesOf(steps[stepIdx + 1]),
                             [oid |-> FreshOid, condition |-> "", nextStep |-> 0]))]
  /\ out' = None
  /\ UNCHANGED <<cases>>
  /\ DraftFrame

deleteBranch(stepIdx, branchIdx) ==
  /\ pc = "ready"
  /\ Handled
  /\ stepIdx \in 0..(Len(steps) - 1)
  /\ branchIdx \in 0..(Len(BranchesOf(steps[stepIdx + 1])) - 1)
  /\ steps' = [steps EXCEPT ![stepIdx + 1].branches =
                 Some(RemoveAt(BranchesOf(steps[stepIdx + 1]), branchIdx + 1))]
  /\ out' = None
  /\ UNCHANGED <<cases>>
  /\ DraftFrame

\* ns[i].branches![bi].condition = e.target.value: an assignment to the Branch
\* object, which a committed case may hold too
setCondition(i, bi, v) ==
  /\ pc = "ready"
  /\ Handled
  /\ i \in 0..(Len(steps) - 1)
  /\ bi \in 0..(Len(BranchesOf(steps[i + 1])) - 1)
  /\ LET b == BranchesOf(steps[i + 1])[bi + 1] IN
       /\ v # b.condition
       /\ steps' = AssignInSteps(steps, b.oid, "condition", v)
       /\ cases' = AssignInCases(cases, b.oid, "condition", v)
  /\ out' = None
  /\ DraftFrame

\* the value of the <option> for the step at idx: step.action || `步骤 ${idx + 1}`
OptionValue(ss, idx) ==
  IF ss[idx + 1].action # "" THEN ss[idx + 1].action ELSE StepLabel(idx)

\* ns.findIndex((step) => step.action === value): the first match, or -1
FindIndex(ss, value) ==
  IF \E n \in 1..Len(ss) : ss[n].action = value
  THEN (CHOOSE n \in 1..Len(ss) :
          ss[n].action = value /\ \A m \in 1..(n - 1) : ss[m].action # value) - 1
  ELSE -1

\* the user picks the option at position opt of the branch-target <select>
selectTarget(i, bi, opt) ==
  /\ pc = "ready"
  /\ Handled
  /\ i \in 0..(Len(steps) - 1)
  /\ bi \in 0..(Len(BranchesOf(steps[i + 1])) - 1)
  /\ opt \in 0..(Len(steps) - 1)
  /\ LET b == BranchesOf(steps[i + 1])[bi + 1]
         targetIdx == FindIndex(steps, OptionValue(steps, opt))
     IN IF targetIdx # -1
        THEN /\ steps' = AssignInSteps(steps, b.oid, "nextStep", targetIdx)
             /\ cases' = AssignInCases(cases, b.oid, "nextStep", targetIdx)
        ELSE UNCHANGED <<steps, cases>>
  /\ out' = None
  /\ DraftFrame

\* ---------------------------------------------------------- graph builder
\* a variant that leaves "失败" to the last alternative
StatusClassTwoWay(status) ==
  IF status = Success THEN "success" ELSE "exception"

\* s.expectedStatus === "成功" ? "success" : s.expectedStatus === "失败" ? "fail" : "exception"
StatusClass(status) ==
  IF status = Success THEN "success"
  ELSE IF status = Failure THEN "fail" ELSE "exception"

\* `S${idx}["${s.action} | ${s.expectedStatus}"]`
NodeLine(s, idx) ==
  [kind |-> "node", idx |-> idx, action |-> s.action, status |-> s.expectedStatus]

\* `S${s.dependsOn} --> S${idx}`
DependencyLine(s, idx) ==
  [kind |-> "edge", from |-> Get(s.dependsOn), to |-> idx, label |-> None]

\* a variant that numbers the target from 1, as the exporters' labels do
BranchLineOneBased(b, idx) ==
  [kind |-> "edge", from |-> idx, to |-> b.nextStep + 1, label |-> Some(b.condition)]

\* `S${idx} -->|${b.condition}| S${b.nextStep}`
BranchLine(b, idx) ==
  [kind |-> "edge", from |-> idx, to |-> b.nextStep, label |-> Some(b.condition)]

\* `class S${idx} <class>`
ClassLine(s, idx) ==
  [kind |-> "class", idx |-> idx, cls |-> StatusClass(s.expectedStatus)]

\* a variant that emits the dependency edge only for a step without branches
EdgeLinesOfStepEither(s, idx) ==
  IF Len(BranchesOf(s)) > 0
  THEN [j \in 1..Len(BranchesOf(s)) |-> BranchLine(BranchesOf(s)[j], idx)]
  ELSE IF IsSome(s.dependsOn) THEN <<DependencyLine(s, idx)>> ELSE <<>>

\* the body of the second forEach for one step
EdgeLinesOfStep(s, idx) ==
  (IF IsSome(s.dependsOn) THEN <<DependencyLine(s, idx)>> ELSE <<>>)
    \o [j \in 1..Len(BranchesOf(s)) |-> BranchLine(BranchesOf(s)[j], idx)]

\* a variant in two passes: the dependency edges of all steps, then the branch
\* edges of all steps
RECURSIVE DependencyPass(_, _)
DependencyPass(ss, n) ==
  IF n = 0 THEN <<>>
  ELSE DependencyPass(ss, n - 1)
         \o (IF IsSome(ss[n].dependsOn) THEN <<DependencyLine(ss[n], n - 1)>> ELSE <<>>)
RECURSIVE BranchPass(_, _)
BranchPass(ss, n) ==
  IF n = 0 THEN <<>>
  ELSE BranchPass(ss, n - 1)
         \o [j \in 1..Len(BranchesOf(ss[n])) |-> BranchLine(BranchesOf(ss[n])[j], n - 1)]
EdgeLinesTwoPasses(ss, n) == DependencyPass(ss, n) \o BranchPass(ss, n)

RECURSIVE EdgeLines(_, _)
EdgeLines(ss, n) ==
  IF n = 0 THEN <<>> ELSE EdgeLines(ss, n - 1) \o EdgeLinesOfStep(ss[n], n - 1)

\* the lines of the graph description, without the fixed header and classDefs
generateMermaid(c) ==
  [i \in 1..Len(c.steps) |-> NodeLine(c.steps[i], i - 1)]
    \o EdgeLines(c.steps, Len(c.steps))
    \o [i \in 1..Len(c.steps) |-> ClassLine(c.steps[i], i - 1)]

\* <MermaidChart code={generateMermaid(c)} />: the render of one case's chart
renderChart(k) ==
  /\ pc = "ready"
  /\ k \in 1..Len(cases)
  /\ out' = Some([name |-> "mermaid", content |-> generateMermaid(cases[k])])
  /\ UNCHANGED <<pc, slot, cases, title, precondition, steps, editingId, assigned, ops>>

\* ---------------------------------------------------------------- exports
\* a || b on strings
OrElse(text, dflt) == IF text = "" THEN dflt ELSE text

\* "无" and "未知操作"
NoneText == "none"
UnknownStep == "unknown step"

\* arr[key] for a property key: an element for the key of an index in range,
\* undefined for any other key
ArrayProp(arr, key) ==
  IF \E n \in 0..(Len(arr) - 1) : key = IndexKey(n) THEN Some(arr[key.num + 1]) ELSE None

\* arr[n] for a number n
ArrayAt(arr, n) == IF n \in 0..(Len(arr) - 1) THEN Some(arr[n + 1]) ELSE None

\* cases[c.id as any]?.steps[b.nextStep]?.action || "未知操作"
BranchTargetText(cs, c, b) ==
  LET owner == ArrayProp(cs, c.id) IN
    IF ~IsSome(owner) THEN UnknownStep
    ELSE LET target == ArrayAt(Get(owner).steps, b.nextStep) IN
           IF ~IsSome(target) THEN UnknownStep
           ELSE OrElse(Get(target).action, UnknownStep)

\* one <li> of the <ol>; the <ul> is there when s.branches && s.branches.length > 0
HtmlStep(cs, c, s) ==
  [action |-> s.action, cls |-> StatusClass(s.expectedStatus), status |-> s.expectedStatus,
   expectedValue |-> OrElse(s.expectedValue, NoneText),
   ul |-> IF IsSome(s.branches) /\ Len(Get(s.branches)) > 0
          THEN Some([j \in 1..Len(Get(s.branches)) |->
                       [condition |-> Get(s.branches)[j].condition,
                        next |-> BranchTargetText(cs, c, Get(s.branches)[j])]])
          ELSE None]

\* one <div class="case-card">
HtmlCase(cs, c) ==
  [id |-> c.id, title |-> c.title, precondition |-> OrElse(c.precondition, NoneText),
   ol |-> [i \in 1..Len(c.steps) |-> HtmlStep(cs, c, c.steps[i])]]

HtmlDocument(cs) == [k \in 1..Len(cs) |-> HtmlCase(cs, cs[k])]

exportHtml ==
  /\ pc = "ready"
  /\ Handled
  /\ out' = Some([name |-> "testcases.html", content |-> HtmlDocument(cases)])
  /\ UNCHANGED <<pc, slot, cases, title, precondition, steps, editingId, assigned>>

\* a variant that prints the stored 0-based target
ExcelBranchZeroBased(b) == [condition |-> b.condition, stepNo |-> b.nextStep]

\* `[${b.condition} -> 步骤 ${b.nextStep + 1}]`
ExcelBranch(b) == [condition |-> b.condition, stepNo |-> b.nextStep + 1]

\* `步骤 ${idx + 1}: ${s.action} | ${s.expectedStatus} | ${s.expectedValue} ${branchStr}`;
\* branchStr is the items joined by ", ", the empty string when there is none
ExcelLine(s, idx) ==
  [stepNo |-> idx + 1, action |-> s.action, status |-> s.expectedStatus,
   expectedValue |-> s.expectedValue,
   branchStr |-> [j \in 1..Len(BranchesOf(s)) |-> ExcelBranch(BranchesOf(s)[j])]]

ExcelRow(c) ==
  [id |-> c.id, title |-> c.title, precondition |-> c.precondition,
   lines |-> [i \in 1..Len(c.steps) |-> ExcelLine(c.steps[i], i - 1)]]

\* a variant that lists the rows newest first
ExcelRowsNewestFirst(cs) == [k \in 1..Len(cs) |-> ExcelRow(cs[Len(cs) + 1 - k])]

\* cases.map((c) => ({ID, title, precondition, steps})), one sheet row each
ExcelRows(cs) == [k \in 1..Len(cs) |-> ExcelRow(cs[k])]

exportExcel ==
  /\ pc = "ready"
  /\ Handled
  /\ out' = Some([name |-> "testcases.xlsx", content |-> ExcelRows(cases)])
  /\ UNCHANGED <<pc, slot, cases, title, precondition, steps, editingId, assigned>>

\* Topic(`分支: ${b.condition} -> 步骤 ${b.nextStep + 1}`)
XMindBranch(b) == [condition |-> b.condition, stepNo |-> b.nextStep + 1, children |-> <<>>]

\* a variant that never attaches the branch topics
XMindStepNoChildren(s, idx) ==
  [stepNo |-> idx + 1, action |-> s.action, status |-> s.expectedStatus,
   note |-> s.expectedValue, children |-> <<>>]

\* Topic(`步骤 ${idx + 1}: ${s.action} [${s.expectedStatus}]`).note(s.expectedValue),
\* with children when s.branches is there
XMindStep(s, idx) ==
  [stepNo |-> idx + 1, action |-> s.action, status |-> s.expectedStatus,
   note |-> s.expectedValue,
   children |-> IF IsSome(s.branches)
                THEN [j \in 1..Len(Get(s.branches)) |-> XMindBranch(Get(s.branches)[j])]
                ELSE <<>>]

\* Topic(`${c.id}: ${c.title}`).note(c.precondition || "")
XMindCase(c) ==
  [id |-> c.id, title |-> c.title, note |-> OrElse(c.precondition, ""),
   children |-> [i \in 1..Len(c.steps) |-> XMindStep(c.steps[i], i - 1)]]

\* RootTopic("测试用例")
XMindRoot(cs) ==
  [title |-> "test cases", children |-> [k \in 1..Len(cs) |-> XMindCase(cs[k])]]

\* a variant that clears the form once the outline is written
exportXMindClearingForm ==
  /\ pc = "ready"
  /\ Handled
  /\ out' = Some([name |-> "testcases.xmind", content |-> XMindRoot(cases)])
  /\ ResetForm
  /\ editingId' = None
  /\ UNCHANGED <<pc, slot, cases, assigned>>

exportXMind ==
  /\ pc = "ready"
  /\ Handled
  /\ out' = Some([name |-> "testcases.xmind", content |-> XMindRoot(cases)])
  /\ UNCHANGED <<pc, slot, cases, title, precondition, steps, editingId, assigned>>

\* ------------------------------------------------------------------- Next
Next ==
  \/ Mount
  \/ addCase
  \/ \E k \in 1..MaxCases : editCase(k)
  \/ saveCase
  \/ \E k \in 1..Len(cases), ok \in BOOLEAN : deleteCase(cases[k].id, ok)
  \/ \E ok \in BOOLEAN : clearCases(ok)
  \/ \E v \in TitleInputs : setTitle(v)
  \/ \E v \in PreconditionInputs : setPrecondition(v)
  \/ \E i \in 1..MaxSteps, v \in ActionInputs : setStepField(i, "action", v)
  \/ \E i \in 1..MaxSteps, v \in Statuses : setStepField(i, "expectedStatus", v)
  \/ \E i \in 1..MaxSteps, v \in ValueInputs : setStepField(i, "expectedValue", v)
  \/ addStep
  \/ \E idx \in 0..(MaxSteps - 1) : deleteStep(idx)
  \/ \E i \in 0..(MaxSteps - 1) : addBranch(i)
  \/ \E i \in 0..(MaxSteps - 1), bi \in 0..(MaxBranches - 1) : deleteBranch(i, bi)
  \/ \E i \in 0..(MaxSteps - 1), bi \in 0..(MaxBranches - 1), v \in ConditionInputs :
        setCondition(i, bi, v)
  \/ \E i \in 0..(MaxSteps - 1), bi \in 0..(MaxBranches - 1), opt \in 0..(MaxSteps - 1) :
        selectTarget(i, bi, opt)
  \/ exportExcel
  \/ exportXMind
  \/ exportHtml

Spec == Init /\ [][Next]_vars

\* ------------------------------------------- the graph builder on its own
\* generateMermaid is a function of one case: it is applied to the cases of a
\* Collection read from the slot, whose steps are drawn from StoredSteps.
StoredStep(action, status, dependsOn, branches) ==
  [action |-> action, expectedStatus |-> status, expectedValue |-> "",
   dependsOn |-> dependsOn, branches |-> branches]
StoredBranch(condition, nextStep) == [condition |-> condition, nextStep |-> nextStep]

StoredSteps ==
  { StoredStep("a", Success, None, None),
    StoredStep("b", Failure, Some(0), None),
    StoredStep("", Exception, None, Some(<<>>)),
    StoredStep("a", Success, Some(1), Some(<<StoredBranch("x", 0)>>)),
    StoredStep("b", Failure, None, Some(<<StoredBranch("x", 1), StoredBranch("y", 0)>>)),
    StoredStep("a", Exception, Some(0), Some(<<StoredBranch("x", 1), StoredBranch("x", 1)>>)),
    StoredStep("b", Success, None, Some(<<StoredBranch("", 0)>>)),
    StoredStep("a", Failure, Some(MaxSteps), Some(<<StoredBranch("x", MaxSteps)>>)),
    StoredStep("a", Exception, Some(1), None),
    StoredStep("b", Success, Some(0), Some(<<>>)) }

StoredCases ==
  { [id |-> TcId(1), title |-> "t", precondition |-> "", steps |-> ss] :
      ss \in UNION {[1..n -> StoredSteps] : n \in 0..MaxSteps} }

\* the component right after Mount, for a slot that holds one stored case
InitGraph ==
  /\ pc = "ready"
  /\ \E c \in StoredCases :
       /\ slot = JSONstringify(<<c>>)
       /\ cases = JSONparse(<<c>>)
  /\ title = ""
  /\ precondition = ""
  /\ steps = <<DefaultStep>>
  /\ editingId = None
  /\ out = None
  /\ assigned = Ids(cases)
  /\ ops = 0

NextGraph == \E k \in 1..MaxCases : renderChart(k)

SpecGraph == InitGraph /\ [][NextGraph]_vars

\* ------------------------------------ the page with its charts re-rendered
\* every render of the list calls generateMermaid for each listed case
NextPage == Next \/ NextGraph

SpecPage == Init /\ [][NextPage]_vars

\* ================================================================ claims
InRange(n, ss) == n \in 0..(Len(ss) - 1)
Count(seq, x) == Cardinality({n \in 1..Len(seq) : seq[n] = x})
IsFile(name) == IsSome(out) /\ Get(out).name = name

\* the edits of the draft the form offers
DraftEdit ==
  \/ addStep
  \/ \E idx \in 0..(MaxSteps - 1) : deleteStep(idx)
  \/ \E i \in 0..(MaxSteps - 1) : addBranch(i)
  \/ \E i \in 0..(MaxSteps - 1), bi \in 0..(MaxBranches - 1) : deleteBranch(i, bi)
  \/ \E i \in 1..MaxSteps, v \in ActionInputs : setStepField(i, "action", v)
  \/ \E i \in 1..MaxSteps, v \in Statuses : setStepField(i, "expectedStatus", v)
  \/ \E i \in 1..MaxSteps, v \in ValueInputs : setStepField(i, "expectedValue", v)
  \/ \E i \in 0..(MaxSteps - 1), bi \in 0..(MaxBranches - 1), v \in ConditionInputs :
        setCondition(i, bi, v)
  \/ \E i \in 0..(MaxSteps - 1), bi \in 0..(MaxBranches - 1), opt \in 0..(MaxSteps - 1) :
        selectTarget(i, bi, opt)

\* C1: the cases of the Collection always have pairwise distinct ids, and
\* addCase never assigns an id that was assigned before (even to a case
\* deleted since).
C1_IdsUniqueNeverReused ==
  [][ /\ \A k1, k2 \in 1..Len(cases') : cases'[k1].id = cases'[k2].id => k1 = k2
      /\ addCase => TcId(Len(cases) + 1) \notin assigned ]_vars

\* C2: during an edit session every edit of the draft leaves every committed
\* case of the Collection unchanged.
C2_DraftEditsKeepCollection ==
  [][ (IsSome(editingId) /\ DraftEdit) => cases' = cases ]_vars

\* C3: in the report export, every branch whose nextStep is a valid index into
\* its own case's steps displays the action text of the step at that index.
C3_ReportShowsTargetAction ==
  IsFile("testcases.html") =>
    \A k \in 1..Len(cases) : \A i \in 1..Len(cases[k].steps) :
      \A j \in 1..Len(BranchesOf(cases[k].steps[i])) :
        LET b == BranchesOf(cases[k].steps[i])[j] IN
          InRange(b.nextStep, cases[k].steps) =>
            Get(Get(out).content[k].ol[i].ul)[j].next = cases[k].steps[b.nextStep + 1].action

\* C4: the report export does not throw; it renders every case, step and
\* branch, with the "unknown step" placeholder for exactly the branches whose
\* nextStep is out of range, every other branch showing its target.
C4_ReportPlaceholderOnlyOutOfRange ==
  IsFile("testcases.html") =>
    /\ pc = "ready"
    /\ Len(Get(out).content) = Len(cases)
    /\ \A k \in 1..Len(cases) :
         /\ Len(Get(out).content[k].ol) = Len(cases[k].steps)
         /\ \A i \in 1..Len(cases[k].steps) :
              /\ Len(OptSeq(Get(out).content[k].ol[i].ul)) = Len(BranchesOf(cases[k].steps[i]))
              /\ \A j \in 1..Len(BranchesOf(cases[k].steps[i])) :
                   LET b == BranchesOf(cases[k].steps[i])[j]
                       shown == Get(Get(out).content[k].ol[i].ul)[j].next
                   IN IF InRange(b.nextStep, cases[k].steps)
                      THEN shown = OrElse(cases[k].steps[b.nextStep + 1].action, UnknownStep)
                      ELSE shown = UnknownStep

\* C5: saveCase for an id that is no longer in the Collection fails with a
\* NotFound error outcome and leaves the Collection unchanged.
C5_SaveAbsentFailsNotFound ==
  [][ (saveCase /\ Get(editingId) \notin Ids(cases)) =>
        /\ pc' = "crashed" \/ (IsSome(out') /\ Get(out').name = "NotFound")
        /\ cases' = cases ]_vars

\* C6: after every completed user action the slot holds the serialization of
\* the current Collection.
C6_SlotIsSerializedCollection ==
  pc = "ready" => slot = JSONstringify(cases)

\* C7: at startup a slot that is missing, empty or fails to parse gives an
\* empty Collection and no error propagates.
C7_StartupFallsBackToEmpty ==
  [][ (Mount /\ slot.kind \in {"missing", "empty", "malformed"}) =>
        (pc' = "ready" /\ cases' = <<>>) ]_vars

\* C8: the graph builder emits exactly len(steps) node declarations, in step
\* order S0, S1, ..., and gives each node exactly one style class, the one
\* matching its expectedStatus.
C8_NodesAndClasses ==
  IsFile("mermaid") =>
    LET ss == cases[1].steps
        lines == Get(out).content
        nodes == SelectSeq(lines, LAMBDA l : l.kind = "node")
        classes == SelectSeq(lines, LAMBDA l : l.kind = "class")
        Matching(status) ==
          CASE status = Success -> "success"
            [] status = Failure -> "fail"
            [] status = Exception -> "exception"
    IN /\ Len(nodes) = Len(ss)
       /\ \A i \in 1..Len(ss) :
            /\ nodes[i].idx = i - 1
            /\ nodes[i].action = ss[i].action
            /\ nodes[i].status = ss[i].expectedStatus
            /\ Cardinality({n \in 1..Len(classes) : classes[n].idx = i - 1}) = 1
            /\ \A n \in 1..Len(classes) :
                 classes[n].idx = i - 1 => classes[n].cls = Matching(ss[i].expectedStatus)
       /\ Len(classes) = Len(ss)

\* a chart of a case whose steps carry all three statuses among them
C8_Witness ==
  /\ IsFile("mermaid")
  /\ Len(cases[1].steps) >= 2
  /\ \E i, j \in 1..Len(cases[1].steps) :
       cases[1].steps[i].expectedStatus = Failure /\ cases[1].steps[j].expectedStatus = Exception

\* C9: for every step at index i with dependsOn = d the emitted lines contain
\* exactly one unlabeled edge d -> i, with or without branches on the step;
\* a step without dependsOn has no unlabeled edge into it.
C9_DependencyEdges ==
  IsFile("mermaid") =>
    LET ss == cases[1].steps
        lines == Get(out).content
    IN \A i \in 1..Len(ss) :
         IF IsSome(ss[i].dependsOn)
         THEN /\ Count(lines, [kind |-> "edge", from |-> Get(ss[i].dependsOn),
                               to |-> i - 1, label |-> None]) = 1
              /\ Cardinality({n \in 1..Len(lines) :
                                lines[n].kind = "edge" /\ lines[n].label = None
                                /\ lines[n].to = i - 1}) = 1
         ELSE \A n \in 1..Len(lines) :
                lines[n].kind = "edge" /\ lines[n].label = None => lines[n].to # i - 1

\* a chart of a case with a step that has both a dependency and branches
C9_Witness ==
  /\ IsFile("mermaid")
  /\ \E i \in 1..Len(cases[1].steps) :
       /\ IsSome(cases[1].steps[i].dependsOn)
       /\ Len(BranchesOf(cases[1].steps[i])) > 0
  /\ \E i \in 1..Len(cases[1].steps) : ~IsSome(cases[1].steps[i].dependsOn)

\* C10: every branch b of every step i has its own edge i -> b.nextStep
\* labeled b.condition among the emitted lines, and there is no other labeled
\* edge: the labeled edges are as many as the branches of the case.
C10_BranchEdges ==
  IsFile("mermaid") =>
    LET ss == cases[1].steps
        lines == Get(out).content
        labeled == SelectSeq(lines, LAMBDA l : l.kind = "edge" /\ IsSome(l.label))
    IN /\ \A i \in 1..Len(ss) : \A j \in 1..Len(BranchesOf(ss[i])) :
            LET b == BranchesOf(ss[i])[j] IN
              Count(labeled, [kind |-> "edge", from |-> i - 1, to |-> b.nextStep,
                              label |-> Some(b.condition)])
                = Cardinality({j2 \in 1..Len(BranchesOf(ss[i])) :
                                 /\ BranchesOf(ss[i])[j2].nextStep = b.nextStep
                                 /\ BranchesOf(ss[i])[j2].condition = b.condition})
       /\ Len(labeled) = BranchCount(ss, Len(ss))

\* a chart of a case with branches on two steps, one of them with two branches
C10_Witness ==
  /\ IsFile("mermaid")
  /\ \E i, j \in 1..Len(cases[1].steps) :
       /\ i # j
       /\ Len(BranchesOf(cases[1].steps[i])) = 2
       /\ Len(BranchesOf(cases[1].steps[j])) = 1

\* the edge lines of a chart, in the order they were emitted
EdgesOf(lines) == SelectSeq(lines, LAMBDA l : l.kind = "edge")
\* the step an edge line was emitted for: the target of a dependency edge, the
\* source of a branch edge
OwnerOf(e) == IF IsSome(e.label) THEN e.from ELSE e.to

C12_OutOfBoundsEdgesDropped ==
  IsFile("mermaid") =>
    LET ss == cases[1].steps
        edges == EdgesOf(Get(out).content)
    IN /\ \A n \in 1..Len(edges) : InRange(edges[n].from, ss) /\ InRange(edges[n].to, ss)
       /\ \A i \in 1..Len(ss) :
            /\ (IsSome(ss[i].dependsOn) /\ InRange(Get(ss[i].dependsOn), ss)) =>
                 Count(edges, [kind |-> "edge", from |-> Get(ss[i].dependsOn),
                               to |-> i - 1, label |-> None]) = 1
            /\ \A j \in 1..Len(BranchesOf(ss[i])) :
                 InRange(BranchesOf(ss[i])[j].nextStep, ss) =>
                   Count(edges, [kind |-> "edge", from |-> i - 1,
                                 to |-> BranchesOf(ss[i])[j].nextStep,
                                 label |-> Some(BranchesOf(ss[i])[j].condition)]) >= 1

\* C13: in every reachable state every branch of every committed case has a
\* nextStep that is a valid index into its own case's steps.
C13_CommittedTargetsValid ==
  pc = "ready" =>
    \A k \in 1..Len(cases) : \A i \in 1..Len(cases[k].steps) :
      \A j \in 1..Len(BranchesOf(cases[k].steps[i])) :
        InRange(BranchesOf(cases[k].steps[i])[j].nextStep, cases[k].steps)

\* the ids a caller of deleteCase may name
CandidateIds == {TcId(n) : n \in 1..(MaxCases + 1)}

\* C14: deleteCase is idempotent: for an id that is absent from the Collection
\* the removal leaves the Collection unchanged, and after a confirmed
\* deleteCase(id) a second removal of the same id changes nothing more; the
\* handler raises no error.
C14_DeleteIdempotent ==
  [][ /\ \A id \in CandidateIds :
           id \notin Ids(cases') => RemoveById(cases', id) = cases'
      /\ \A k \in 1..Len(cases) :
           deleteCase(cases[k].id, TRUE) =>
             /\ RemoveById(cases', cases[k].id) = cases'
             /\ cases[k].id \notin Ids(cases')
             /\ pc' = "ready"
             /\ out' = None ]_vars

\* the Collection after TC-1 of two cases was deleted: TC-2 remains
C14_Witness ==
  /\ pc = "ready"
  /\ Len(cases) = 1
  /\ cases[1].id = TcId(2)
  /\ TcId(1) \in assigned

\* C15: in the tabular export the steps field of a case has one line per step
\* in step order; line k carries the 1-based index k, the step's action,
\* expectedStatus and expectedValue, then one "[condition -> Step nextStep+1]"
\* item per branch in branch order, and no item when the step has no branches
\* (absent or empty list).
C15_TabularLines ==
  IsFile("testcases.xlsx") =>
    LET rows == Get(out).content
    IN \A k \in (1..Len(cases)) \cap DOMAIN rows :
         LET ss == cases[k].steps
             ls == rows[k].lines
         IN /\ Len(ls) = Len(ss)
            /\ \A i \in 1..Len(ss) :
                 LET bs == BranchesOf(ss[i])
                 IN /\ ls[i].stepNo = i
                    /\ ls[i].action = ss[i].action
                    /\ ls[i].status = ss[i].expectedStatus
                    /\ ls[i].expectedValue = ss[i].expectedValue
                    /\ Len(ls[i].branchStr) = Len(bs)
                    /\ \A j \in 1..Len(bs) :
                         /\ ls[i].branchStr[j].condition = bs[j].condition
                         /\ ls[i].branchStr[j].stepNo = bs[j].nextStep + 1

\* a sheet of a case with a branchless step and a step with a branch
C15_Witness ==
  /\ IsFile("testcases.xlsx")
  /\ \E k \in 1..Len(cases) :
       /\ \E i \in 1..Len(cases[k].steps) : BranchesOf(cases[k].steps[i]) = <<>>
       /\ \E i \in 1..Len(cases[k].steps) : BranchesOf(cases[k].steps[i]) # <<>>

\* C16: the tabular export has exactly one row per test case, in Collection
\* order, so the row count is the Collection size; for an empty Collection it
\* has no data row and the export still completes.
C16_OneRowPerCase ==
  /\ (pc = "ready" /\ ops < MaxOps) => ENABLED exportExcel
  /\ IsFile("testcases.xlsx") =>
       LET rows == Get(out).content
       IN /\ Len(rows) = Len(cases)
          /\ \A k \in 1..Len(cases) :
               /\ rows[k].id = cases[k].id
               /\ rows[k].title = cases[k].title
               /\ rows[k].precondition = cases[k].precondition
               /\ Len(rows[k].lines) = Len(cases[k].steps)

\* a sheet of two cases that differ
C16_Witness ==
  /\ IsFile("testcases.xlsx")
  /\ Len(cases) = 2
  /\ cases[1] # cases[2]
  /\ Len(Get(out).content) = 2

\* the sheet of the empty Collection
C16_EmptySheet == IsFile("testcases.xlsx") /\ cases = <<>> /\ Get(out).content = <<>>

\* the largest element of a finite set of naturals, 0 for the empty set
MaxOf(S) == IF S = {} THEN 0 ELSE CHOOSE x \in S : \A y \in S : y <= x

\* the number of levels of a topic tree, the topic itself included
RECURSIVE TopicDepth(_)
TopicDepth(t) ==
  1 + MaxOf({TopicDepth(t.children[i]) : i \in 1..Len(t.children)})

\* the depth of the subtree of case topic t, counted from the root
DepthFromRoot(t) == 1 + TopicDepth(t)

HasBranch(c) == \E i \in 1..Len(c.steps) : BranchesOf(c.steps[i]) # <<>>

\* every step topic has one leaf child per branch of its step, in order
LeafPerBranch(t, c) ==
  /\ Len(t.children) = Len(c.steps)
  /\ \A i \in 1..Len(c.steps) :
       LET bs == BranchesOf(c.steps[i])
           st == t.children[i]
       IN /\ Len(st.children) = Len(bs)
          /\ \A j \in 1..Len(bs) :
               /\ st.children[j].children = <<>>
               /\ st.children[j].condition = bs[j].condition
               /\ st.children[j].stepNo = bs[j].nextStep + 1

\* C17 as stated: in the outline export the subtree of a case has depth 4 from
\* the root when some step has a branch and depth 3 when no step has any
\* branch; each step topic has one leaf child per branch.
C17_DepthFourOrThree ==
  IsFile("testcases.xmind") =>
    LET root == Get(out).content
    IN \A k \in 1..Len(cases) :
         /\ DepthFromRoot(root.children[k]) = IF HasBranch(cases[k]) THEN 4 ELSE 3
         /\ LeafPerBranch(root.children[k], cases[k])

\* C17 amended: the subtree of a case has depth 4 from the root when some step
\* has a branch, depth 3 when the case has a step and no step has a branch
\* (branch lists absent or present but empty), and depth 2 when the case has
\* no step; each step topic has one leaf child per branch.
C17_OutlineDepth ==
  IsFile("testcases.xmind") =>
    LET root == Get(out).content
    IN /\ Len(root.children) = Len(cases)
       /\ \A k \in 1..Len(cases) :
            /\ DepthFromRoot(root.children[k]) =
                 IF HasBranch(cases[k]) THEN 4
                 ELSE IF cases[k].steps # <<>> THEN 3 ELSE 2
            /\ LeafPerBranch(root.children[k], cases[k])

\* an outline of a case with a branch next to a case without steps
C17_Witness ==
  /\ IsFile("testcases.xmind")
  /\ \E k \in 1..Len(cases) : HasBranch(cases[k])
  /\ \E k \in 1..Len(cases) : cases[k].steps = <<>>

\* an outline of a case whose step has a present but empty branch list
C17_EmptyBranchList ==
  /\ IsFile("testcases.xmind")
  /\ \E k \in 1..Len(cases) : \E i \in 1..Len(cases[k].steps) :
       cases[k].steps[i].branches = Some(<<>>)

\* the names of the artifacts of the graph builder and the three exports
ArtifactNames == {"mermaid", "testcases.xlsx", "testcases.xmind", "testcases.html"}

\* C18: generateMermaid, exportExcel, exportXMind and exportHtml are pure
\* reads: a step that produces one of their artifacts leaves the Collection,
\* the draft, the editing id and the persisted slot unchanged.
C18_ExportsArePureReads ==
  [][ /\ (out' # None /\ Get(out').name \in ArtifactNames) =>
           UNCHANGED <<cases, title, precondition, steps, editingId, slot>>
      /\ (exportExcel \/ exportXMind \/ exportHtml
            \/ \E k \in 1..MaxCases : renderChart(k)) =>
           (out' # None /\ Get(out').name \in ArtifactNames) ]_vars

\* an artifact written in the middle of an edit session with a changed draft
C18_Witness ==
  /\ IsSome(out)
  /\ Get(out).name \in ArtifactNames
  /\ IsSome(editingId)
  /\ cases # <<>>
  /\ \E k \in 1..Len(cases) : cases[k].id = Get(editingId) /\ cases[k].steps # steps

\* the ids of a Collection in its order
IdSeq(cs) == [k \in 1..Len(cs) |-> cs[k].id]

\* sub is seq with some elements left out, the others in their order
IsSubsequence(sub, seq) ==
  \E f \in [1..Len(sub) -> 1..Len(seq)] :
    /\ \A m, n \in 1..Len(sub) : m < n => f[m] < f[n]
    /\ \A m \in 1..Len(sub) : sub[m] = seq[f[m]]

C20_DeleteStepKeepsReferences ==
  [][ \A idx \in 0..(Len(steps) - 1) :
        deleteStep(idx) =>
          /\ Len(steps') = Len(steps) - 1
          /\ \A j \in 1..Len(steps') :
               LET old == steps[IF j <= idx THEN j ELSE j + 1]
               IN /\ steps'[j].action = old.action
                  /\ steps'[j].expectedStatus = old.expectedStatus
                  /\ steps'[j].expectedValue = old.expectedValue
                  /\ steps'[j].dependsOn = old.dependsOn
                  /\ IsSome(steps'[j].branches) = IsSome(old.branches)
                  /\ Len(BranchesOf(steps'[j])) = Len(BranchesOf(old))
                  /\ \A b \in 1..Len(BranchesOf(old)) :
                       /\ BranchesOf(steps'[j])[b].nextStep = BranchesOf(old)[b].nextStep
                       /\ BranchesOf(steps'[j])[b].condition = BranchesOf(old)[b].condition ]_vars

\* the draft of the stored case after its first step was deleted: the step
\* left still names step 0 as its prerequisite and step 1 as a branch target
C20_Witness ==
  /\ IsSome(editingId)
  /\ Len(steps) = 1
  /\ steps[1].action = "submit"
  /\ steps[1].dependsOn = Some(0)
  /\ Len(BranchesOf(steps[1])) = 1
  /\ BranchesOf(steps[1])[1].nextStep = 1

\* C21: saveCase and deleteCase affect only the one case the user targeted:
\* a saveCase whose edited case is still in the Collection replaces exactly
\* one case, a confirmed deleteCase removes exactly one case, and every other
\* case is unchanged.
C21_OnlyTargetedCaseAffected ==
  [][ /\ (saveCase /\ Get(editingId) \in Ids(cases)) =>
           /\ Cardinality({k \in 1..Len(cases) : cases[k].id = Get(editingId)}) = 1
           /\ Len(cases') = Len(cases)
           /\ \A k \in 1..Len(cases) :
                cases[k].id # Get(editingId) => cases'[k] = cases[k]
      /\ \A k \in 1..Len(cases) :
           deleteCase(cases[k].id, TRUE) =>
             \E p \in 1..Len(cases) : cases' = RemoveAt(cases, p) ]_vars

\* C22: in the branch-target selector of the draft, choosing the option that
\* stands for the step at index k sets that branch's nextStep to k, also when
\* several steps have the same action text or a step has an empty action.
C22_SelectorSetsChosenIndex ==
  [][ \A i \in 0..(Len(steps) - 1) :
        \A bi \in 0..(Len(BranchesOf(steps[i + 1])) - 1) :
          \A opt \in 0..(Len(steps) - 1) :
            selectTarget(i, bi, opt) =>
              /\ Len(steps') = Len(steps)
              /\ BranchesOf(steps'[i + 1])[bi + 1].nextStep = opt ]_vars

====
